---- MODULE Spec2Model ----
(***************************************************************************)
(* A model of qlog::logger (include/qlog.hpp): a leveled logger that       *)
(* borrows an output stream, keeps the severity of the current message and *)
(* the verbosity threshold, and forwards headers and values to the stream  *)
(* when the current severity is within the threshold.                      *)
(*                                                                         *)
(* Text is modelled as a sequence of one-character strings, so that what   *)
(* reaches a stream can be compared character by character.                *)
(***************************************************************************)
EXTENDS Integers, Sequences, FiniteSets, TLC

VARIABLES
  out,        \* out[s]: the characters written to stream s so far
  flushed,    \* flushed[s]: how many characters of out[s] have been flushed
  _output,    \* logger::_output, the stream the logger borrows
  _severity,  \* logger::_severity
  _verbosity, \* logger::_verbosity
  pc,         \* "live" between construction and destruction, then "destroyed"
  build,      \* what the build makes of the overlapping sprintf in timestamp()
  tv,         \* the struct timeval most recently filled by gettimeofday
  time_str,   \* the string most recently returned by timestamp()
  last,       \* the most recent call on the logger
  entry,      \* whether operator() was called yet, and the inserts since
  calls,      \* number of calls made so far (bounded by MaxCalls)
  trace       \* the calls of the entry-by-entry program, in order

vars == <<out, flushed, _output, _severity, _verbosity, pc, build, tv,
          time_str, last, entry, calls, trace>>

----------------------------------------------------------------------------
(* Bounds *)

MaxCalls == 3

MaxEntries == 3

----------------------------------------------------------------------------
(* Characters and numbers as text *)

NL == "\n"

DigitChars == <<"0", "1", "2", "3", "4", "5", "6", "7", "8", "9">>

Digit(d) == DigitChars[d + 1]

RECURSIVE DecNat(_)
DecNat(n) == IF n < 10 THEN <<Digit(n)>>
             ELSE DecNat(n \div 10) \o <<Digit(n % 10)>>

\* printf's %d and std::ostream << int: decimal, no padding, '-' when negative
Dec(n) == IF n < 0 THEN <<"-">> \o DecNat(0 - n) ELSE DecNat(n)

\* strftime's zero-padded two-digit fields (%m %d %H %M %S)
Pad2(n) == <<Digit((n \div 10) % 10), Digit(n % 10)>>

\* strftime's %Y for the years of the model (four digits)
Year4(y) == DecNat(y)

----------------------------------------------------------------------------
(* Severities *)

Severity(l, n) == [level |-> l, name |-> n]

none  == Severity(0,   <<"N", "O", "N", "E">>)
fatal == Severity(100, <<"F", "A", "T", "A", "L">>)
error == Severity(200, <<"E", "R", "R", "O", "R">>)
warn  == Severity(300, <<"W", "A", "R", "N">>)
info  == Severity(400, <<"I", "N", "F", "O">>)
debug == Severity(500, <<"D", "E", "B", "U", "G">>)
all   == Severity(999, <<"A", "L", "L">>)

BuiltIn == {none, fatal, error, warn, info, debug, all}

\* A severity a caller defines with severity_t(l, n), above qlog::all
verbose == Severity(1000, <<"V", "E", "R", "B">>)

Severities == BuiltIn \cup {verbose}

\* The severities callers tag entries with: the lowest level, levels below,
\* at and above a threshold in the middle, qlog::all and one above it.
MarkSeverities == {none, error, warn, debug, all, verbose}

\* The verbosity thresholds loggers are constructed with: suppress-all, a
\* level in the middle, the default, and a caller-defined one above it.
Thresholds == {none, warn, all, verbose}

----------------------------------------------------------------------------
(* Streams and values *)

Streams == {"cerr", "cout", "file"}

\* Values a caller inserts. cat says how the argument is passed: a string
\* literal or a temporary binds to operator<<(const T&), a modifiable object
\* to operator<<(T&).
StrValue(c, s) == [cat |-> c, kind |-> "str", s |-> s, n |-> 0]
IntValue(c, n) == [cat |-> c, kind |-> "int", s |-> <<>>, n |-> n]

LitE == StrValue("literal", <<"E">>)
LitW == StrValue("literal", <<"W">>)
LitD == StrValue("literal", <<"D", " ", "h", "i", "d", "d", "e", "n">>)
Tmp42 == IntValue("temporary", 42)
ObjM7 == IntValue("object", 0 - 7)

NoValue == StrValue("none", <<>>)

\* The sink's default textual representation of a value
Text(v) == IF v.kind = "int" THEN Dec(v.n) ELSE v.s

Manipulators == {"endl", "flush"}

----------------------------------------------------------------------------
(* timestamp() *)

\* Wall-clock instants gettimeofday can report: seconds since the epoch and
\* microseconds within the second.
TimeVal(sec, usec) == [tv_sec |-> sec, tv_usec |-> usec]

\* 1970-01-01T00:00:00, 1970-01-01T23:59:59, 2000-02-29T12:00:00,
\* 2024-01-02T03:04:05, 2026-11-05T14:48:09
Secs == {0, 86399, 951825600, 1704164645, 1793890089}

USecs == {0, 999, 1000, 5000, 9999, 42000, 99999, 100000, 123456, 500000,
          999000, 999999}

TimeInputs == {TimeVal(s, u) : s \in Secs, u \in USecs}

\* The instants the clock shows when operator() reads it
Instants == {TimeVal(1704164645, 5000), TimeVal(1793890089, 123456)}

\* gmtime_r: the UTC calendar fields of a count of seconds since the epoch
\* (days since 1970-01-01 to a civil date in the proleptic Gregorian calendar)
gmtime_r(sec) ==
  LET days == sec \div 86400
      rem  == sec % 86400
      z    == days + 719468
      era  == z \div 146097
      doe  == z - era * 146097
      yoe  == (doe - doe \div 1460 + doe \div 36524 - doe \div 146096) \div 365
      doy  == doe - (365 * yoe + yoe \div 4 - yoe \div 100)
      mp   == (5 * doy + 2) \div 153
      d    == doy - (153 * mp + 2) \div 5 + 1
      m    == IF mp < 10 THEN mp + 3 ELSE mp - 9
      y    == yoe + era * 400 + (IF m <= 2 THEN 1 ELSE 0)
  IN  [tm_year |-> y, tm_mon |-> m, tm_mday |-> d,
       tm_hour |-> rem \div 3600, tm_min |-> (rem % 3600) \div 60,
       tm_sec |-> rem % 60]

\* strftime(time_str, maxsize, "%Y-%m-%dT%H:%M:%S", &time_info)
strftime(tm) ==
  Year4(tm.tm_year) \o <<"-">> \o Pad2(tm.tm_mon) \o <<"-">> \o Pad2(tm.tm_mday)
    \o <<"T">> \o Pad2(tm.tm_hour) \o <<":">> \o Pad2(tm.tm_min) \o <<":">>
    \o Pad2(tm.tm_sec)

\* sprintf(time_str, "%s.%dZ", time_str, t.tv_usec / 1000): the destination is
\* also the %s argument, which the C standard leaves undefined. A build either
\* copies the buffer onto itself and appends ("inplace"), or empties the
\* destination before formatting, so that %s contributes nothing ("cleared").
\* %d prints the quotient in decimal without padding.
Builds == {"inplace", "cleared"}

sprintf_ms(b, str, usec) ==
  (IF b = "inplace" THEN str ELSE <<>>) \o <<".">> \o Dec(usec \div 1000) \o <<"Z">>

timestamp(b, t) == sprintf_ms(b, strftime(gmtime_r(t.tv_sec)), t.tv_usec)

----------------------------------------------------------------------------
(* The logger *)

\* What std::ostream's operator<< does to stream s: the text is appended.
put(s, text) == [out EXCEPT ![s] = @ \o text]

\* The record of a call: which operation, and its argument.
Call(op, l, v, p) == [op |-> op, sev |-> l, val |-> v, manip |-> p]

\* logger(std::ostream& o = std::cerr, severity_t const& v = all), and
\* logger(severity_t const& v) with o = std::cerr
logger(o, v) ==
  /\ _output = o
  /\ _severity = all.level
  /\ _verbosity = v.level

\* A set_severity that only ever lowers the level: the most severe tag sticks
set_severity_keeps_lowest(l) ==
  _severity' = IF l.level < _severity THEN l.level ELSE _severity

\* logger& set_severity(const severity_t l)
set_severity(l) == _severity' = l.level

\* A header without the space after the bracketed name
Header_no_space(l, stamp) == <<NL>> \o stamp \o <<" ", "[">> \o l.name \o <<"]">>

\* " [" << l.name << "] " after std::endl and the timestamp
Header(l, stamp) == <<NL>> \o stamp \o <<" ", "[">> \o l.name \o <<"]", " ">>

\* logger& operator()(severity_t const& l)
operator_call(l) ==
  /\ pc = "live"
  /\ set_severity(l)
  /\ IF _severity' <= _verbosity
     THEN \E t \in Instants :
            /\ tv' = t
            /\ time_str' = timestamp(build, t)
            /\ out' = put(_output, Header(l, time_str'))
            \* std::endl flushes once the newline is written
            /\ flushed' = [flushed EXCEPT ![_output] = Len(out[_output]) + 1]
     ELSE UNCHANGED <<tv, time_str, out, flushed>>
  /\ UNCHANGED <<_output, _verbosity, pc, build>>

\* template<typename T> logger& operator<<(const T& o)
insert_const(v) ==
  /\ pc = "live"
  /\ IF _severity <= _verbosity
     THEN out' = put(_output, Text(v))
     ELSE out' = out
  /\ UNCHANGED <<flushed, _output, _severity, _verbosity, pc, build, tv, time_str>>

\* An operator<<(T&) that forgets the severity check
insert_obj_ungated(v) ==
  /\ pc = "live"
  /\ out' = put("cout", Text(v))
  /\ UNCHANGED <<flushed, _output, _severity, _verbosity, pc, build, tv, time_str>>

\* template<typename T> logger& operator<<(T& o)
insert_obj(v) ==
  /\ pc = "live"
  /\ IF _severity <= _verbosity
     THEN out' = put("cout", Text(v))
     ELSE out' = out
  /\ UNCHANGED <<flushed, _output, _severity, _verbosity, pc, build, tv, time_str>>

\* std::endl and std::flush applied to stream s
apply_manip(p, s) ==
  /\ out' = IF p = "endl" THEN put(s, <<NL>>) ELSE out
  /\ flushed' = [flushed EXCEPT ![s] = Len(out'[s])]

\* A manipulator overload gated like the value overloads
insert_manip_gated(p) ==
  /\ pc = "live"
  /\ IF _severity <= _verbosity
     THEN apply_manip(p, _output)
     ELSE UNCHANGED <<out, flushed>>
  /\ UNCHANGED <<_output, _severity, _verbosity, pc, build, tv, time_str>>

\* logger& operator<<(std::ostream& (*p)(std::ostream&))
insert_manip(p) ==
  /\ pc = "live"
  /\ apply_manip(p, _output)
  /\ UNCHANGED <<_output, _severity, _verbosity, pc, build, tv, time_str>>

\* A destructor that ends the line only when the last entry was visible
dtor_gated ==
  /\ pc = "live"
  /\ IF _severity <= _verbosity
     THEN apply_manip("endl", _output)
     ELSE UNCHANGED <<out, flushed>>
  /\ pc' = "destroyed"
  /\ UNCHANGED <<_output, _severity, _verbosity, build, tv, time_str>>

\* ~logger()
dtor ==
  /\ pc = "live"
  /\ apply_manip("endl", _output)
  /\ pc' = "destroyed"
  /\ UNCHANGED <<_output, _severity, _verbosity, build, tv, time_str>>

\* Overload resolution: a modifiable object binds to operator<<(T&), a
\* string literal or a temporary to operator<<(const T&).
ConstValues == {LitE, Tmp42}
ObjValues == {ObjM7}

----------------------------------------------------------------------------
(* Any caller: up to MaxCalls calls in any order, then destruction *)

\* The state once a logger is constructed on one of the streams with one of
\* the thresholds vs
Constructed(vs) ==
  /\ \E o \in Streams, v \in vs : logger(o, v)
  /\ build \in Builds
  /\ out = [s \in Streams |-> <<>>]
  /\ flushed = [s \in Streams |-> 0]
  /\ pc = "live"
  /\ tv = TimeVal(0, 0)
  /\ time_str = <<>>
  /\ last = Call("ctor", all, NoValue, "none")
  /\ entry = [open |-> FALSE, n |-> 0]
  /\ calls = 0
  /\ trace = <<>>

Init == Constructed(Thresholds)

Mark ==
  \E l \in MarkSeverities :
    /\ calls < MaxCalls
    /\ operator_call(l)
    /\ last' = Call("mark", l, NoValue, "none")
    /\ entry' = [open |-> TRUE, n |-> 0]
    /\ calls' = calls + 1
    /\ UNCHANGED trace

InsertConst ==
  \E v \in ConstValues :
    /\ calls < MaxCalls
    /\ insert_const(v)
    /\ last' = Call("insert_const", all, v, "none")
    /\ entry' = [entry EXCEPT !.n = @ + 1]
    /\ calls' = calls + 1
    /\ UNCHANGED trace

InsertObj ==
  \E v \in ObjValues :
    /\ calls < MaxCalls
    /\ insert_obj(v)
    /\ last' = Call("insert_obj", all, v, "none")
    /\ entry' = [entry EXCEPT !.n = @ + 1]
    /\ calls' = calls + 1
    /\ UNCHANGED trace

InsertManip ==
  \E p \in Manipulators :
    /\ calls < MaxCalls
    /\ insert_manip(p)
    /\ last' = Call("insert_manip", all, NoValue, p)
    /\ calls' = calls + 1
    /\ UNCHANGED <<entry, trace>>

Destroy ==
  /\ dtor
  /\ last' = Call("dtor", all, NoValue, "none")
  /\ UNCHANGED <<entry, calls, trace>>

Next == Mark \/ InsertConst \/ InsertObj \/ InsertManip \/ Destroy

Spec == Init /\ [][Next]_vars

----------------------------------------------------------------------------
(* Properties of single calls *)

\* The step is an insertion of an ordinary value
IsInsert(c) == c.op \in {"insert_const", "insert_obj"}

\* The current severity is within the verbosity threshold
Within == _severity <= _verbosity

\* The step wrote exactly text at the end of the logger's sink
SinkGains(text) == out'[_output] = out[_output] \o text

\* The step wrote to no stream but the logger's sink, and flushed no other
OnlySink ==
  \A s \in Streams \ {_output} : out'[s] = out[s] /\ flushed'[s] = flushed[s]

\* C1: once operator() has tagged the entry with a severity whose level is
\* above the verbosity threshold, every insertion of an ordinary value,
\* through either overload, leaves every stream exactly as it was.
C1_SuppressedInsertWritesNothing ==
  [][(IsInsert(last') /\ entry.open /\ ~Within)
       => (out' = out /\ flushed' = flushed)]_vars

\* C1 witness: a suppressed entry followed by two chained insertions, the
\* second through operator<<(T&), with nothing in any stream
C1_Witness ==
  /\ last.op = "insert_obj"
  /\ entry.open /\ entry.n >= 2
  /\ ~Within
  /\ \A s \in Streams : out[s] = <<>>

\* C2 (as claimed): an insertion into a visible entry, through either
\* overload, appends exactly the text of the value to the logger's own sink
\* and writes nowhere else.
C2_VisibleInsertWritesTextToSink ==
  [][(IsInsert(last') /\ entry.open /\ Within)
       => (SinkGains(Text(last'.val)) /\ OnlySink)]_vars

\* C3: operator()(l) sets the current severity to l's level whatever the
\* threshold; when that level is within the threshold it appends one header
\* to the sink (newline, the string timestamp() returns for the clock
\* reading, space, '[' name ']', space) and otherwise writes nothing.
C3_MarkSetsSeverityAndWritesHeader ==
  [][(last'.op = "mark")
       => /\ _severity' = last'.sev.level
          /\ OnlySink
          /\ IF last'.sev.level <= _verbosity
             THEN /\ time_str' = timestamp(build, tv')
                  /\ SinkGains(<<NL>> \o time_str' \o <<" ", "[">>
                                 \o last'.sev.name \o <<"]", " ">>)
             ELSE out' = out /\ flushed' = flushed]_vars

\* C3 witness: two consecutive visible operator() calls and nothing else;
\* the sink holds two headers with nothing between them
C3_Witness ==
  /\ calls = 2 /\ last.op = "mark" /\ entry.n = 0
  /\ \E l1, l2 \in MarkSeverities, t1, t2 \in Instants :
       out[_output] =
         <<NL>> \o timestamp(build, t1) \o <<" ", "[">> \o l1.name \o <<"]", " ">>
           \o <<NL>> \o timestamp(build, t2) \o <<" ", "[">> \o l2.name
           \o <<"]", " ">>

\* C5 (as claimed): a value inserted before the first operator() call is
\* written to the sink, whatever threshold the logger was constructed with
\* (stated for the thresholds that let some message through, and for the
\* overload that writes to the sink).
C5_PreMarkInsertIsWritten ==
  [][(last'.op = "insert_const" /\ ~entry.open /\ _verbosity > none.level)
       => SinkGains(Text(last'.val))]_vars

\* C6 (as claimed): with verbosity = qlog::all, operator()(l) writes its
\* header and the insertions that follow are written, for every severity l,
\* built-in or caller-defined.
C6_AllShowsEverySeverity ==
  [][(_verbosity = all.level)
       => /\ (last'.op = "mark") => out'[_output] # out[_output]
          /\ (last'.op = "insert_const" /\ entry.open)
               => SinkGains(Text(last'.val))]_vars

\* C7 (as claimed): with verbosity = qlog::none, operator()(l) writes no
\* header and the insertions that follow write nothing, for every severity l,
\* qlog::none included.
C7_NoneShowsNothing ==
  [][(_verbosity = none.level)
       => /\ (last'.op = "mark") => out' = out
          /\ (IsInsert(last') /\ entry.open) => out' = out]_vars

\* C8: in every state where the logger is alive it can be destroyed, and
\* destroying it appends exactly one newline to the sink and flushes the
\* sink, whatever the current severity and the threshold; no other stream
\* is touched.
C8_DestructorAlwaysEndsLine ==
  /\ [](pc = "live" => ENABLED Destroy)
  /\ [][(last'.op = "dtor")
          => /\ pc = "live" /\ pc' = "destroyed"
             /\ SinkGains(<<NL>>)
             /\ flushed'[_output] = Len(out'[_output])
             /\ OnlySink]_vars

\* C8 witness: a logger destroyed after its only operator() call used a
\* suppressed severity; the sink holds the newline alone, flushed
C8_Witness ==
  /\ pc = "destroyed"
  /\ entry.open /\ ~Within
  /\ out[_output] = <<NL>>
  /\ flushed[_output] = 1

\* C9: a manipulator passed to operator<< is applied to the sink on every
\* call, within the threshold or not (std::endl appends a newline and
\* flushes, std::flush flushes), and changes neither the current severity
\* nor the threshold.
C9_ManipulatorAlwaysApplied ==
  [][(last'.op = "insert_manip")
       => /\ SinkGains(IF last'.manip = "endl" THEN <<NL>> ELSE <<>>)
          /\ flushed'[_output] = Len(out'[_output])
          /\ OnlySink
          /\ _severity' = _severity
          /\ _verbosity' = _verbosity]_vars

\* C9 witness: a suppressed entry with one suppressed insertion, ended by
\* std::endl: the newline is all the sink holds
C9_Witness ==
  /\ last.op = "insert_manip" /\ last.manip = "endl"
  /\ entry.open /\ entry.n = 1
  /\ ~Within
  /\ out[_output] = <<NL>>
  /\ flushed[_output] = 1

----------------------------------------------------------------------------
(* A caller that logs entry after entry: log(l) << "text", MaxEntries times *)

EntryThresholds == {error, warn}

EntrySeverities == {error, warn, debug}

Literals == {LitE, LitW, LitD}

InitEntries == Constructed(EntryThresholds)

EntryMark ==
  /\ Len(trace) < 2 * MaxEntries
  /\ Len(trace) % 2 = 0
  /\ \E l \in EntrySeverities :
       /\ operator_call(l)
       /\ last' = Call("mark", l, NoValue, "none")
       /\ trace' = Append(trace, [op |-> "mark", sev |-> l, val |-> NoValue,
                                  tv |-> tv'])
  /\ entry' = [open |-> TRUE, n |-> 0]
  /\ UNCHANGED calls

EntryInsert ==
  /\ Len(trace) % 2 = 1
  /\ \E v \in Literals :
       /\ insert_const(v)
       /\ last' = Call("insert_const", all, v, "none")
       /\ trace' = Append(trace, [op |-> "insert", sev |-> all, val |-> v,
                                  tv |-> tv])
  /\ entry' = [entry EXCEPT !.n = @ + 1]
  /\ UNCHANGED calls

NextEntries == EntryMark \/ EntryInsert

SpecEntries == InitEntries /\ [][NextEntries]_vars

\* The header of an entry tagged l when the clock read t
HeaderAt(l, t) ==
  <<NL>> \o timestamp(build, t) \o <<" ", "[">> \o l.name \o <<"]", " ">>

\* The most recent operator() call among the first i calls
LatestMark(i) ==
  CHOOSE j \in 1..i :
    /\ trace[j].op = "mark"
    /\ \A k \in (j + 1)..i : trace[k].op # "mark"

\* What the first i calls should have left in the sink: each call
\* contributes its header or its text when the severity of the most recent
\* operator() call is within the threshold, and nothing otherwise.
RECURSIVE Shown(_)
Shown(i) ==
  IF i = 0 THEN <<>>
  ELSE LET c == trace[i]
           m == trace[LatestMark(i)]
       IN  Shown(i - 1) \o
             (IF m.sev.level > _verbosity THEN <<>>
              ELSE IF c.op = "mark" THEN HeaderAt(c.sev, c.tv)
              ELSE Text(c.val))

\* C4: after any sequence of entries the sink holds, in call order, exactly
\* the headers and texts of the entries whose own severity is within the
\* threshold: every insertion is gated by the most recent operator() call
\* alone. No other stream is written.
C4_EntriesGatedByLatestMark ==
  /\ out[_output] = Shown(Len(trace))
  /\ \A s \in Streams \ {_output} : out[s] = <<>>

\* C4 witness: verbosity = warn and log(error) << "E", log(debug) <<
\* "D hidden", log(warn) << "W": the sink holds the error entry and the warn
\* entry and nothing of the debug entry
C4_Witness ==
  /\ _verbosity = warn.level
  /\ Len(trace) = 6
  /\ <<trace[1].sev, trace[3].sev, trace[5].sev>> = <<error, debug, warn>>
  /\ <<trace[2].val, trace[4].val, trace[6].val>> = <<LitE, LitD, LitW>>
  /\ out[_output] = HeaderAt(error, trace[1].tv) \o <<"E">>
                      \o HeaderAt(warn, trace[5].tv) \o <<"W">>

----------------------------------------------------------------------------
(* A caller of timestamp() at any instant *)

TimestampCall ==
  \E t \in TimeInputs :
    /\ pc = "live"
    /\ tv' = t
    /\ time_str' = timestamp(build, t)
    /\ last' = Call("timestamp", all, NoValue, "none")
    /\ UNCHANGED <<out, flushed, _output, _severity, _verbosity, pc, build,
                   entry, calls, trace>>

SpecTimestamp == Init /\ [][TimestampCall]_vars

IsDigit(c) == \E d \in 0..9 : c = Digit(d)

\* Three digits, zero-padded
Pad3(n) == <<Digit((n \div 100) % 10), Digit((n \div 10) % 10), Digit(n % 10)>>

\* C10 (as claimed): every timestamp has the shape YYYY-MM-DDTHH:MM:SS.mmmZ,
\* 24 characters, where mmm is the microseconds divided by 1000 as three
\* zero-padded digits (stated for the builds whose sprintf keeps the date
\* and time, so that the overlapping sprintf is not what decides it).
C10_TimestampShape ==
  (last.op = "timestamp" /\ build = "inplace") =>
     /\ Len(time_str) = 24
     /\ \A i \in 1..24 :
          CASE i \in {5, 8}   -> time_str[i] = "-"
            [] i = 11         -> time_str[i] = "T"
            [] i \in {14, 17} -> time_str[i] = ":"
            [] i = 20         -> time_str[i] = "."
            [] i = 24         -> time_str[i] = "Z"
            [] OTHER          -> IsDigit(time_str[i])
     /\ SubSeq(time_str, 21, 23) = Pad3(tv.tv_usec \div 1000)

====
